---- MODULE Spec2Model ----
(***************************************************************************)
(* cryptify-js: hybrid envelope encryption (AES-256-CBC for the payload,   *)
(* RSA-OAEP for the symmetric key), src/lib/cryptifyjs.js with its two     *)
(* utilities rsa.js and aes.js (src/unnamed/part_001).                     *)
(*                                                                         *)
(* A JavaScript string is a sequence of character codes; a byte string is  *)
(* a string whose codes are below 256.  The node-forge primitives the      *)
(* source calls are modelled by what they do to such strings: base64,      *)
(* UTF-8 decoding, PKCS#7 padding, CBC chaining, OAEP encoding and JSON    *)
(* are computed; the AES block permutation, the RSA permutation and the    *)
(* hash inside MGF1 are small keyed permutations standing in for them.     *)
(***************************************************************************)
EXTENDS Integers, Sequences, FiniteSets, TLC

\* ---------------------------------------------------------------- bounds
MaxStrLen == 1
NumSeeds == 2
ModulusBytes == 100
MaxFlipBit == 1

\* ------------------------------------------------------ program constants
AesKeyBytes == 32
AesIvBytes == 16
BlockSize == 16

\* ------------------------------------------------------------- bytes
Byte(n) == n % 256

Bit(a, i) == (a \div (2 ^ i)) % 2

\* the sequence s with every element computed
Seq1(s) == s \o <<>>

\* const v = ...; F(v): v is computed once
Bind(v, F(_)) == F(v)

\* a ^ b of JavaScript, on values that are not negative
RECURSIVE Xor(_, _)
Xor(a, b) ==
    IF a = 0 THEN b
    ELSE IF b = 0 THEN a
    ELSE 2 * Xor(a \div 2, b \div 2) + ((a + b) % 2)

XorBytes(a, b) == Seq1([i \in 1..Len(a) |-> Xor(a[i], b[i])])

\* s[lo] + ... + s[hi]
RECURSIVE SumRange(_, _, _)
SumRange(s, lo, hi) ==
    IF lo > hi THEN 0
    ELSE IF lo = hi THEN s[lo]
    ELSE LET mid == (lo + hi) \div 2
         IN  SumRange(s, lo, mid) + SumRange(s, mid + 1, hi)

SumTo(s, n) == SumRange(s, 1, n)

Slice(s, from, to) == IF to < from THEN <<>> ELSE SubSeq(s, from, to)

Repeat(c, n) == Seq1([i \in 1..n |-> c])

\* ------------------------------------------------------------- JS values
Undefined == [t |-> "undefined", s |-> <<>>, o |-> <<>>]
Null == [t |-> "null", s |-> <<>>, o |-> <<>>]
Num(n) == [t |-> "number", s |-> <<n>>, o |-> <<>>]
Str(s) == [t |-> "string", s |-> s, o |-> <<>>]
Obj(fields) == [t |-> "object", s |-> <<>>, o |-> fields]

\* !v
Falsy(v) ==
    \/ v.t \in {"undefined", "null"}
    \/ v.t = "number" /\ v.s = <<0>>
    \/ v.t = "string" /\ v.s = <<>>

\* typeof v
TypeOf(v) == IF v.t = "null" THEN "object" ELSE v.t

\* ------------------------------------------------------------- errors
NoCause == "none"

NoError == [msg |-> "", cause |-> NoCause]

\* an error thrown by the library or the runtime: it has no own "cause" property
LibError(msg) == [msg |-> msg, cause |-> NoCause]

\* new Error(message)
Error1(msg) == [msg |-> msg, cause |-> NoCause]

\* new Error(message, options): the cause is installed only from a property
\* named "cause" of the second argument
NewError(msg, options) == [msg |-> msg, cause |-> options.cause]

\* ------------------------------------------------------------- base64
B64Char(idx) ==
    IF idx < 26 THEN 65 + idx
    ELSE IF idx < 52 THEN 97 + (idx - 26)
    ELSE IF idx < 62 THEN 48 + (idx - 52)
    ELSE IF idx = 62 THEN 43 ELSE 47

IsB64Char(c) ==
    \/ c \in 65..90
    \/ c \in 97..122
    \/ c \in 48..57
    \/ c \in {43, 47, 61}

B64Idx(c) ==
    IF c \in 65..90 THEN c - 65
    ELSE IF c \in 97..122 THEN c - 97 + 26
    ELSE IF c \in 48..57 THEN c - 48 + 52
    ELSE IF c = 43 THEN 62
    ELSE IF c = 47 THEN 63 ELSE 64

\* forge.util.encode64(input)
encode64(input) ==
    LET n == Len(input)
        groups == (n + 2) \div 3
        at(k) == IF k <= n THEN input[k] ELSE 0
        ch(j) ==
            LET g == (j - 1) \div 4
                p == (j - 1) % 4
                c1 == at(3 * g + 1)
                c2 == at(3 * g + 2)
                c3 == at(3 * g + 3)
                has2 == 3 * g + 2 <= n
                has3 == 3 * g + 3 <= n
            IN  IF p = 0 THEN B64Char(c1 \div 4)
                ELSE IF p = 1 THEN B64Char((c1 % 4) * 16 + c2 \div 16)
                ELSE IF p = 2 THEN (IF has2 THEN B64Char((c2 % 16) * 4 + c3 \div 64) ELSE 61)
                ELSE (IF has3 THEN B64Char(c3 % 64) ELSE 61)
    IN  Seq1([j \in 1..(4 * groups) |-> ch(j)])

\* forge.util.decode64 on input without the characters outside the alphabet
Decode64Clean(clean) ==
    LET n == Len(clean)
        groups == (n + 3) \div 4
        enc(k) == IF k <= n THEN B64Idx(clean[k]) ELSE 0
        isPad(k) == k <= n /\ clean[k] = 61
        first(g) ==
            LET hi == enc(4 * g + 1) * 4
                lo == enc(4 * g + 2) \div 16
            IN  IF lo = 4 /\ Bit(hi, 2) = 1 THEN hi ELSE hi + lo
        second(g) == (enc(4 * g + 2) % 16) * 16 + enc(4 * g + 3) \div 4
        third(g) == (enc(4 * g + 3) % 4) * 64 + enc(4 * g + 4)
        bytesOf(g) ==
            IF isPad(4 * g + 3) THEN << first(g) >>
            ELSE IF isPad(4 * g + 4) THEN << first(g), second(g) >>
            ELSE << first(g), second(g), third(g) >>
        RECURSIVE Groups(_, _)
        Groups(lo, hi) ==
            IF lo > hi THEN <<>>
            ELSE IF lo = hi THEN bytesOf(lo)
            ELSE LET mid == (lo + hi) \div 2
                 IN  Groups(lo, mid) \o Groups(mid + 1, hi)
    IN  Groups(0, groups - 1)

\* forge.util.decode64(input): characters outside the alphabet are dropped;
\* a character missing from the last group reads as index 0
decode64(input) == Decode64Clean(SelectSeq(input, IsB64Char))

\* ------------------------------------------------------------- UTF-8
IsCont(c) == c \in 128..191

\* forge.util.decodeUtf8(bytes) = decodeURIComponent(escape(bytes)):
\* [ok, s]; ok is FALSE where the runtime throws URIError
RECURSIVE Utf8From(_, _)
Utf8From(b, i) ==
    IF i > Len(b) THEN [ok |-> TRUE, s |-> <<>>]
    ELSE
        LET c == b[i]
            bad == [ok |-> FALSE, s |-> <<>>]
            cont(k) == i + k <= Len(b) /\ IsCont(b[i + k])
            rest(k, chars) ==
                LET r == Utf8From(b, i + k)
                IN  IF r.ok THEN [ok |-> TRUE, s |-> chars \o r.s] ELSE bad
        IN  IF c > 255 THEN bad
            ELSE IF c < 128 THEN rest(1, << c >>)
            ELSE IF c \in 194..223 /\ cont(1)
                THEN rest(2, << (c - 192) * 64 + (b[i + 1] - 128) >>)
            ELSE IF /\ c \in 224..239 /\ cont(1) /\ cont(2)
                    /\ (c = 224 => b[i + 1] >= 160)
                    /\ (c = 237 => b[i + 1] <= 159)
                THEN rest(3, << (c - 224) * 4096 + (b[i + 1] - 128) * 64
                                + (b[i + 2] - 128) >>)
            ELSE IF /\ c \in 240..244 /\ cont(1) /\ cont(2) /\ cont(3)
                    /\ (c = 240 => b[i + 1] >= 144)
                    /\ (c = 244 => b[i + 1] <= 143)
                THEN LET v == (c - 240) * 262144 + (b[i + 1] - 128) * 4096
                              + (b[i + 2] - 128) * 64 + (b[i + 3] - 128) - 65536
                     IN  rest(4, << 55296 + v \div 1024, 56320 + (v % 1024) >>)
            ELSE bad

decodeUtf8(bytes) == Utf8From(bytes, 1)

\* ------------------------------------------------------------- JSON
HexDigit(n) == IF n < 10 THEN 48 + n ELSE 97 + (n - 10)

HexVal(c) ==
    IF c \in 48..57 THEN c - 48
    ELSE IF c \in 97..102 THEN c - 97 + 10
    ELSE IF c \in 65..70 THEN c - 65 + 10 ELSE 0 - 1

EscapeChar(c) ==
    IF c = 34 THEN << 92, 34 >>
    ELSE IF c = 92 THEN << 92, 92 >>
    ELSE IF c = 8 THEN << 92, 98 >>
    ELSE IF c = 9 THEN << 92, 116 >>
    ELSE IF c = 10 THEN << 92, 110 >>
    ELSE IF c = 12 THEN << 92, 102 >>
    ELSE IF c = 13 THEN << 92, 114 >>
    ELSE IF c < 32 THEN << 92, 117, 48, 48, HexDigit(c \div 16), HexDigit(c % 16) >>
    ELSE << c >>

RECURSIVE EscapeChars(_)
EscapeChars(s) == IF s = <<>> THEN <<>> ELSE EscapeChar(Head(s)) \o EscapeChars(Tail(s))

Quote(s) == << 34 >> \o EscapeChars(s) \o << 34 >>

RECURSIVE Members(_)
Members(fields) ==
    IF fields = <<>> THEN <<>>
    ELSE Quote(Head(fields)[1]) \o << 58 >> \o Quote(Head(fields)[2])
         \o (IF Len(fields) > 1 THEN << 44 >> ELSE <<>>) \o Members(Tail(fields))

\* JSON.stringify(value), for a string or an object of string fields
JSONstringify(v) ==
    IF v.t = "string" THEN Quote(v.s) ELSE << 123 >> \o Members(v.o) \o << 125 >>

IsWs(c) == c \in {32, 9, 10, 13}

RECURSIVE SkipWs(_, _)
SkipWs(t, i) == IF i <= Len(t) /\ IsWs(t[i]) THEN SkipWs(t, i + 1) ELSE i

\* the characters of a JSON string from t[i] (after the opening quote):
\* [ok, s, next]
RECURSIVE ScanString(_, _, _)
ScanString(t, i, acc) ==
    LET bad == [ok |-> FALSE, s |-> <<>>, next |-> i]
    IN  IF i > Len(t) THEN bad
        ELSE IF t[i] = 34 THEN [ok |-> TRUE, s |-> acc, next |-> i + 1]
        ELSE IF t[i] < 32 THEN bad
        ELSE IF t[i] # 92 THEN ScanString(t, i + 1, Append(acc, t[i]))
        ELSE IF i + 1 > Len(t) THEN bad
        ELSE LET e == t[i + 1]
             IN  IF e \in {34, 92, 47} THEN ScanString(t, i + 2, Append(acc, e))
                 ELSE IF e = 98 THEN ScanString(t, i + 2, Append(acc, 8))
                 ELSE IF e = 116 THEN ScanString(t, i + 2, Append(acc, 9))
                 ELSE IF e = 110 THEN ScanString(t, i + 2, Append(acc, 10))
                 ELSE IF e = 102 THEN ScanString(t, i + 2, Append(acc, 12))
                 ELSE IF e = 114 THEN ScanString(t, i + 2, Append(acc, 13))
                 ELSE IF /\ e = 117 /\ i + 5 <= Len(t)
                         /\ \A k \in 2..5 : HexVal(t[i + k]) >= 0
                     THEN ScanString(t, i + 6,
                              Append(acc, HexVal(t[i + 2]) * 4096 + HexVal(t[i + 3]) * 256
                                          + HexVal(t[i + 4]) * 16 + HexVal(t[i + 5])))
                 ELSE bad

ParseString(t, i) ==
    IF i <= Len(t) /\ t[i] = 34 THEN ScanString(t, i + 1, <<>>)
    ELSE [ok |-> FALSE, s |-> <<>>, next |-> i]

\* the members of a JSON object from t[i] (after the opening brace or a
\* comma): [ok, o, next]
RECURSIVE ParseMembers(_, _, _)
ParseMembers(t, i, acc) ==
    LET bad == [ok |-> FALSE, o |-> <<>>, next |-> i]
        k == ParseString(t, SkipWs(t, i))
        colon == SkipWs(t, k.next)
        v == ParseString(t, SkipWs(t, colon + 1))
        after == SkipWs(t, v.next)
    IN  IF ~k.ok THEN bad
        ELSE IF ~(colon <= Len(t) /\ t[colon] = 58) THEN bad
        ELSE IF ~v.ok THEN bad
        ELSE IF after > Len(t) THEN bad
        ELSE IF t[after] = 125
            THEN [ok |-> TRUE, o |-> Append(acc, << k.s, v.s >>), next |-> after + 1]
        ELSE IF t[after] = 44
            THEN ParseMembers(t, after + 1, Append(acc, << k.s, v.s >>))
        ELSE bad

\* JSON.parse(text), for the texts JSONstringify writes (a string, an object
\* of string fields); [ok, val], ok FALSE where the runtime throws SyntaxError
JSONparse(t) ==
    LET bad == [ok |-> FALSE, val |-> Undefined]
        i == SkipWs(t, 1)
    IN  IF i > Len(t) THEN bad
        ELSE IF t[i] = 34 THEN
            LET r == ParseString(t, i)
            IN  IF r.ok /\ SkipWs(t, r.next) > Len(t)
                THEN [ok |-> TRUE, val |-> Str(r.s)] ELSE bad
        ELSE IF t[i] = 123 THEN
            LET j == SkipWs(t, i + 1)
                r == IF j <= Len(t) /\ t[j] = 125
                     THEN [ok |-> TRUE, o |-> <<>>, next |-> j + 1]
                     ELSE ParseMembers(t, i + 1, <<>>)
            IN  IF r.ok /\ SkipWs(t, r.next) > Len(t)
                THEN [ok |-> TRUE, val |-> Obj(r.o)] ELSE bad
        ELSE bad

\* ------------------------------------------------------------- random
Seeds == 1..NumSeeds

\* forge.random.getBytesSync(count): the bytes the source returns on the
\* draw identified by seed
getBytesSync(count, seed) == Seq1([i \in 1..count |-> (seed * 29 + i * 7) % 256])

\* ------------------------------------------------------------- AES-CBC
\* forge.aes key check of createCipher / createDecipher
AesKeyOk(key) == Len(key) \in {16, 24, 32}

KeyByte(key, i) == key[i] + (IF i + BlockSize <= Len(key) THEN key[i + BlockSize] ELSE 0)

KeySum(key) == SumTo([i \in 1..BlockSize |-> KeyByte(key, i)], BlockSize)

\* the block permutation under key, and its inverse: every byte of the
\* result depends on every byte of the block
EncryptBlock(key, b) ==
    Bind(SumTo(b, BlockSize) % 256, LAMBDA tt :
        Seq1([i \in 1..BlockSize |-> (b[i] + KeyByte(key, i) + tt) % 256]))

DecryptBlock(key, c) ==
    Bind((241 * ((SumTo(c, BlockSize) - KeySum(key)) % 256)) % 256, LAMBDA tt :
        Seq1([i \in 1..BlockSize |-> (c[i] - KeyByte(key, i) - tt) % 256]))

\* modes.cbc.pad: PKCS#7
Pad(input) ==
    LET padding == BlockSize - (Len(input) % BlockSize)
    IN  input \o Repeat(padding, padding)

RECURSIVE CbcEncrypt(_, _, _)
CbcEncrypt(key, prev, input) ==
    IF Len(input) < BlockSize THEN <<>>
    ELSE Bind(EncryptBlock(key, XorBytes(SubSeq(input, 1, BlockSize), prev)), LAMBDA out :
             out \o CbcEncrypt(key, out, Slice(input, BlockSize + 1, Len(input))))

\* modes.cbc.decrypt: whole blocks only, what is left over stays unread
RECURSIVE CbcDecrypt(_, _, _)
CbcDecrypt(key, prev, input) ==
    IF Len(input) < BlockSize THEN <<>>
    ELSE LET blk == SubSeq(input, 1, BlockSize)
         IN  XorBytes(DecryptBlock(key, blk), prev)
             \o CbcDecrypt(key, blk, Slice(input, BlockSize + 1, Len(input)))

\* modes.cbc.unpad: [ok, out]; only the last byte is looked at, and it may be
\* as large as blockSize << 2
Unpad(output, overflow) ==
    IF overflow > 0 THEN [ok |-> FALSE, out |-> output]
    ELSE IF output = <<>> THEN [ok |-> TRUE, out |-> <<>>]
    ELSE LET count == output[Len(output)]
         IN  IF count > BlockSize * 4 THEN [ok |-> FALSE, out |-> output]
             ELSE [ok |-> TRUE, out |-> Slice(output, 1, Len(output) - count)]

\* AES.encrypt with a key the service keeps instead of one drawn in the call
AES_encrypt_StoredKey(data, seeds) ==
    Bind(Repeat(75, AesKeyBytes), LAMBDA symmetricKey :
    Bind(getBytesSync(AesIvBytes, seeds[2]), LAMBDA iv :
        [ok |-> TRUE, err |-> NoError,
         key |-> symmetricKey, iv |-> iv,
         data |-> CbcEncrypt(symmetricKey, iv, Pad(JSONstringify(data))),
         drawn |-> << iv >>]))

\* AES.encrypt(data): seeds are the draws of the random source during the call
AES_encrypt(data, seeds) ==
    Bind(getBytesSync(AesKeyBytes, seeds[1]), LAMBDA symmetricKey :
    Bind(getBytesSync(AesIvBytes, seeds[2]), LAMBDA iv :
        [ok |-> TRUE, err |-> NoError,
         key |-> symmetricKey, iv |-> iv,
         data |-> CbcEncrypt(symmetricKey, iv, Pad(JSONstringify(data))),
         drawn |-> << symmetricKey, iv >>]))

\* AES.decrypt(key, iv, data): [ok, err, val, finished]; finished is what
\* decipher.finish() returned, which the source does not read
AES_decrypt(key, iv, data) ==
    LET wrap(e) == [ok |-> FALSE, err |-> NewError("Error while decrypting data", e),
                    val |-> <<>>, finished |-> FALSE]
    IN  IF ~AesKeyOk(key) THEN wrap(LibError("Invalid key parameter."))
        ELSE IF Len(iv) < BlockSize THEN wrap(LibError("Invalid IV length"))
        ELSE
            Bind(Unpad(CbcDecrypt(key, SubSeq(iv, 1, BlockSize), data),
                       Len(data) % BlockSize), LAMBDA fin :
            Bind(decodeUtf8(fin.out), LAMBDA decryptedData :
                IF ~decryptedData.ok THEN wrap(LibError("URI malformed"))
                ELSE [ok |-> TRUE, err |-> NoError, val |-> decryptedData.s,
                      finished |-> fin.ok]))

\* ------------------------------------------------------------- RSA-OAEP
\* the key pairs there are PEM files of
KeyPairIds == {1}

PublicKey(n) == [kind |-> "public", n |-> n]
PrivateKey(n) == [kind |-> "private", n |-> n]
NoKey == [kind |-> "none", n |-> 0]

DigestLength(md) == IF md = "sha1" THEN 20 ELSE 32

HashTag(md) == IF md = "sha1" THEN 17 ELSE 101

\* byte idx of md's digest of a message whose bytes sum to total
DigestByte(md, total, idx) == (HashTag(md) + 31 * total + 13 * idx) % 256

\* the digest of the empty label
LabelHash(md) == Seq1([i \in 1..DigestLength(md) |-> DigestByte(md, 0, i)])

\* forge.mgf.mgf1: the digests of seed || counter, cut to maskLen
rsa_mgf1(seed, maskLen, md) ==
    Bind(SumTo(seed, Len(seed)), LAMBDA total :
        Seq1([j \in 1..maskLen |->
            DigestByte(md, total + (j - 1) \div DigestLength(md),
                       ((j - 1) % DigestLength(md)) + 1)]))

\* the digests an OAEP options object selects: md defaults to SHA-1, and
\* the MGF1 digest defaults to md
OaepParams(options) ==
    LET md == IF options.md = "none" THEN "sha1" ELSE options.md
    IN  [md |-> md, mgf1 |-> IF options.mgf1 = "none" THEN md ELSE options.mgf1]

NoOaep == [md |-> "none", mgf1 |-> "none"]

\* forge.pkcs1.encode_rsa_oaep: [ok, em, seed]
encode_rsa_oaep(message, options, seedId) ==
    LET par == OaepParams(options)
        hLen == DigestLength(par.md)
        maxLength == ModulusBytes - 2 * hLen - 2
    IN  IF Len(message) > maxLength THEN [ok |-> FALSE, em |-> <<>>, seed |-> <<>>]
        ELSE
            Bind(getBytesSync(hLen, seedId), LAMBDA seed :
            Bind(XorBytes(LabelHash(par.md) \o Repeat(0, maxLength - Len(message))
                              \o << 1 >> \o message,
                          rsa_mgf1(seed, ModulusBytes - hLen - 1, par.mgf1)),
                 LAMBDA maskedDB :
                [ok |-> TRUE,
                 em |-> << 0 >> \o XorBytes(seed, rsa_mgf1(maskedDB, hLen, par.mgf1))
                        \o maskedDB,
                 seed |-> seed]))

\* the RSA permutation under the key pair n, and its inverse
RsaPublicOp(n, em) == Seq1([i \in 1..Len(em) |-> (em[i] + 7 * n + i) % 256])

RsaPrivateOp(n, ed) == Seq1([i \in 1..Len(ed) |-> (ed[i] - 7 * n - i) % 256])

\* the first index in lo..hi of a byte of db that is not zero, 0 if none
RECURSIVE FirstNonZero(_, _, _)
FirstNonZero(db, lo, hi) ==
    IF lo > hi THEN 0
    ELSE IF lo = hi THEN (IF db[lo] # 0 THEN lo ELSE 0)
    ELSE LET mid == (lo + hi) \div 2
             l == FirstNonZero(db, lo, mid)
         IN  IF l # 0 THEN l ELSE FirstNonZero(db, mid + 1, hi)

\* the message in a data block db: after the label hash, zeros, then 0x01
OaepUnpad(y, db, md) ==
    Bind(FirstNonZero(db, DigestLength(md) + 1, Len(db)), LAMBDA index :
        IF /\ y = 0
           /\ SubSeq(db, 1, DigestLength(md)) = LabelHash(md)
           /\ index # 0
           /\ db[index] = 1
        THEN [ok |-> TRUE, val |-> Slice(db, index + 1, Len(db))]
        ELSE [ok |-> FALSE, val |-> <<>>])

\* forge.pkcs1.decode_rsa_oaep: [ok, val]
decode_rsa_oaep(em, options) ==
    LET par == OaepParams(options)
        hLen == DigestLength(par.md)
    IN  Bind(SubSeq(em, hLen + 2, Len(em)), LAMBDA maskedDB :
        Bind(XorBytes(SubSeq(em, 2, hLen + 1), rsa_mgf1(maskedDB, hLen, par.mgf1)),
             LAMBDA seed :
            OaepUnpad(em[1],
                      XorBytes(maskedDB,
                               rsa_mgf1(seed, ModulusBytes - hLen - 1, par.mgf1)),
                      par.md)))

\* a public-key step that hands its input back as the ciphertext
publicKey_encrypt_Identity(key, data, options, seedId) ==
    [ok |-> TRUE, err |-> NoError, val |-> data \o Repeat(0, ModulusBytes - Len(data)),
     oaep |-> OaepParams(options), drawn |-> << getBytesSync(DigestLength("sha256"), seedId) >>]

\* publicKey.encrypt(data, "RSA-OAEP", options): [ok, err, val, oaep, drawn]
publicKey_encrypt(key, data, options, seedId) ==
    Bind(encode_rsa_oaep(data, options, seedId), LAMBDA e :
        IF ~e.ok
        THEN [ok |-> FALSE, err |-> LibError("RSAES-OAEP input message length is too long."),
              val |-> <<>>, oaep |-> OaepParams(options), drawn |-> <<>>]
        ELSE [ok |-> TRUE, err |-> NoError, val |-> RsaPublicOp(key.n, e.em),
              oaep |-> OaepParams(options), drawn |-> << e.seed >>])

\* privateKey.decrypt(data, "RSA-OAEP", options): [ok, err, val, oaep]
privateKey_decrypt(key, data, options) ==
    LET fail(m) == [ok |-> FALSE, err |-> LibError(m), val |-> <<>>,
                    oaep |-> OaepParams(options)]
    IN  IF Len(data) # ModulusBytes THEN fail("Encrypted message length is invalid.")
        ELSE Bind(decode_rsa_oaep(RsaPrivateOp(key.n, data), options), LAMBDA d :
                 IF ~d.ok THEN fail("Invalid RSAES-OAEP padding.")
                 ELSE [ok |-> TRUE, err |-> NoError, val |-> d.val,
                       oaep |-> OaepParams(options)])

\* RSA.encrypt with the parameter pair of the object path
RSA_encrypt_Sha1Mgf(message, publicKey, seedId) ==
    Bind(publicKey_encrypt(publicKey, message, [md |-> "sha256", mgf1 |-> "sha1"], seedId),
         LAMBDA r :
        IF ~r.ok
        THEN [r EXCEPT !.err = NewError("Error while encrypting message", r.err)]
        ELSE [r EXCEPT !.val = encode64(r.val)])

\* RSA.encrypt(message, publicKey) of the RSA utility
RSA_encrypt(message, publicKey, seedId) ==
    Bind(publicKey_encrypt(publicKey, message, [md |-> "sha256", mgf1 |-> "none"], seedId),
         LAMBDA r :
        IF ~r.ok
        THEN [r EXCEPT !.err = NewError("Error while encrypting message", r.err)]
        ELSE [r EXCEPT !.val = encode64(r.val)])

\* RSA.decrypt(encryptedMessage, privateKey) of the RSA utility
RSA_decrypt(encryptedMessage, privateKey) ==
    Bind(privateKey_decrypt(privateKey, decode64(encryptedMessage),
                            [md |-> "sha256", mgf1 |-> "none"]),
         LAMBDA r :
        IF ~r.ok
        THEN [r EXCEPT !.err = NewError("Error while decrypting message", r.err)]
        ELSE r)

\* ------------------------------------------------------------- the service
\* the text of a PEM file: "--", the type ('P' a public key, 'R' a private
\* key), the key pair, "--"
PemText(type, n) == << 45, 45, type, 48 + n, 45, 45 >>

\* forge.pem.decode and the ASN.1 reading of the body: [ok, type, n]
pem_decode(pem) ==
    IF /\ Len(pem) = 6
       /\ SubSeq(pem, 1, 2) = << 45, 45 >>
       /\ SubSeq(pem, 5, 6) = << 45, 45 >>
       /\ pem[3] \in {80, 82}
       /\ pem[4] - 48 \in KeyPairIds
    THEN [ok |-> TRUE, type |-> pem[3], n |-> pem[4] - 48]
    ELSE [ok |-> FALSE, type |-> 0, n |-> 0]

\* forge.pki.publicKeyFromPem(pem): [ok, key]
publicKeyFromPem(pem) ==
    LET m == pem_decode(pem)
    IN  IF m.ok /\ m.type = 80 THEN [ok |-> TRUE, key |-> PublicKey(m.n)]
        ELSE [ok |-> FALSE, key |-> NoKey]

\* forge.pki.privateKeyFromPem(pem): [ok, key]
privateKeyFromPem(pem) ==
    LET m == pem_decode(pem)
    IN  IF m.ok /\ m.type = 82 THEN [ok |-> TRUE, key |-> PrivateKey(m.n)]
        ELSE [ok |-> FALSE, key |-> NoKey]

NoOptions == [present |-> FALSE, publicKey |-> Undefined, privateKey |-> Undefined]

Options(pub, priv) == [present |-> TRUE, publicKey |-> pub, privateKey |-> priv]

NoInstance == [publicKey |-> NoKey, privateKey |-> NoKey]

\* a constructor that does not read the private key
CRYPTIFYJS_Lenient(options) ==
    LET fail(e) == [threw |-> TRUE, err |-> e, inst |-> NoInstance]
    IN  IF ~options.present
        THEN fail(Error1("cryptify-js module requires an options object"))
        ELSE IF options.publicKey.t # "string" THEN fail(LibError("TypeError"))
        ELSE LET pub == publicKeyFromPem(decode64(options.publicKey.s))
             IN  IF ~pub.ok THEN fail(LibError("Invalid PEM formatted message."))
                 ELSE [threw |-> FALSE, err |-> NoError,
                       inst |-> [publicKey |-> pub.key, privateKey |-> PrivateKey(1)]]

\* new CRYPTIFYJS(options): [threw, err, inst]
CRYPTIFYJS(options) ==
    LET fail(e) == [threw |-> TRUE, err |-> e, inst |-> NoInstance]
    IN  IF ~options.present
        THEN fail(Error1("cryptify-js module requires an options object"))
        ELSE IF options.publicKey.t # "string" THEN fail(LibError("TypeError"))
        ELSE LET pub == publicKeyFromPem(decode64(options.publicKey.s))
             IN  IF ~pub.ok THEN fail(LibError("Invalid PEM formatted message."))
                 ELSE IF options.privateKey.t # "string" THEN fail(LibError("TypeError"))
                 ELSE LET priv == privateKeyFromPem(decode64(options.privateKey.s))
                      IN  IF ~priv.ok THEN fail(LibError("Invalid PEM formatted message."))
                          ELSE [threw |-> FALSE, err |-> NoError,
                                inst |-> [publicKey |-> pub.key, privateKey |-> priv.key]]

\* what a call of the service did: whether it threw and what, the value it
\* returned, the cipher and codec steps it ran in order, the OAEP digests of
\* its RSA step, and the byte strings it drew from the random source
Thrown(e, steps, oaep, drawn) ==
    [threw |-> TRUE, err |-> e, value |-> Undefined,
     steps |-> steps, oaep |-> oaep, drawn |-> drawn]

Returned(v, steps, oaep, drawn) ==
    [threw |-> FALSE, err |-> NoError, value |-> v,
     steps |-> steps, oaep |-> oaep, drawn |-> drawn]

NoRet == Returned(Undefined, <<>>, NoOaep, <<>>)

\* encrypt with the AES step ahead of the validation
encrypt_LateValidation(this, data, seeds) ==
    Bind(AES_encrypt(data, seeds), LAMBDA encryptedData :
        IF Falsy(data)
        THEN Thrown(Error1("Data is required for encryption"),
                    << "AES.encrypt" >>, NoOaep, encryptedData.drawn)
        ELSE IF TypeOf(data) # "object"
        THEN Thrown(Error1("Data must be an object"),
                    << "AES.encrypt" >>, NoOaep, encryptedData.drawn)
        ELSE
            Bind(publicKey_encrypt(this.publicKey, encryptedData.key,
                                   [md |-> "sha256", mgf1 |-> "sha1"], seeds[3]),
                 LAMBDA encryptedKey :
                Returned([key |-> encryptedKey.val, iv |-> encryptedData.iv,
                          data |-> encryptedData.data],
                         << "AES.encrypt", "publicKey.encrypt" >>, encryptedKey.oaep,
                         encryptedData.drawn \o encryptedKey.drawn)))

\* CRYPTIFYJS.prototype.encrypt(data)
encrypt(this, data, seeds) ==
    IF Falsy(data)
    THEN Thrown(Error1("Data is required for encryption"), <<>>, NoOaep, <<>>)
    ELSE IF TypeOf(data) # "object"
    THEN Thrown(Error1("Data must be an object"), <<>>, NoOaep, <<>>)
    ELSE
        Bind(AES_encrypt(data, seeds), LAMBDA encryptedData :
        Bind(publicKey_encrypt(this.publicKey, encryptedData.key,
                               [md |-> "sha256", mgf1 |-> "sha1"], seeds[3]),
             LAMBDA encryptedKey :
            IF ~encryptedData.ok
            THEN Thrown(NewError("Error while encrypting data", encryptedData.err),
                        << "AES.encrypt" >>, NoOaep, encryptedData.drawn)
            ELSE IF ~encryptedKey.ok
            THEN Thrown(NewError("Error while encrypting data", encryptedKey.err),
                        << "AES.encrypt", "publicKey.encrypt" >>, encryptedKey.oaep,
                        encryptedData.drawn)
            ELSE Returned([key |-> encryptedKey.val, iv |-> encryptedData.iv,
                           data |-> encryptedData.data],
                          << "AES.encrypt", "publicKey.encrypt" >>, encryptedKey.oaep,
                          encryptedData.drawn \o encryptedKey.drawn)))

\* CRYPTIFYJS.prototype.decrypt(key, iv, data)
decrypt(this, key, iv, data) ==
    IF Falsy(key) \/ Falsy(iv) \/ Falsy(data)
    THEN Thrown(Error1("Key, IV, and Data are required for decryption"), <<>>, NoOaep, <<>>)
    ELSE IF TypeOf(key) # "string" \/ TypeOf(iv) # "string" \/ TypeOf(data) # "string"
    THEN Thrown(Error1("Key, IV, and Data must be strings"), <<>>, NoOaep, <<>>)
    ELSE
        Bind(privateKey_decrypt(this.privateKey, key.s,
                                [md |-> "sha256", mgf1 |-> "sha1"]),
             LAMBDA decryptedKey :
        Bind(AES_decrypt(decryptedKey.val, iv.s, data.s), LAMBDA decryptedData :
        Bind(JSONparse(decryptedData.val), LAMBDA parsed :
            IF ~decryptedKey.ok
            THEN Thrown(NewError("Error while decrypting data", decryptedKey.err),
                        << "privateKey.decrypt" >>, decryptedKey.oaep, <<>>)
            ELSE IF ~decryptedData.ok
            THEN Thrown(NewError("Error while decrypting data", decryptedData.err),
                        << "privateKey.decrypt", "AES.decrypt" >>, decryptedKey.oaep, <<>>)
            ELSE IF ~parsed.ok
            THEN Thrown(NewError("Error while decrypting data", LibError("SyntaxError")),
                        << "privateKey.decrypt", "AES.decrypt", "JSON.parse" >>,
                        decryptedKey.oaep, <<>>)
            ELSE Returned(parsed.val,
                          << "privateKey.decrypt", "AES.decrypt", "JSON.parse" >>,
                          decryptedKey.oaep, <<>>))))

\* encryptMessage that leaves the IV as the raw bytes AES.encrypt returned
encryptMessage_RawIv(this, message, seeds) ==
    IF Falsy(message)
    THEN Thrown(Error1("Message is required for encryption"), <<>>, NoOaep, <<>>)
    ELSE IF TypeOf(message) # "string"
    THEN Thrown(Error1("Message must be a string"), <<>>, NoOaep, <<>>)
    ELSE
        Bind(AES_encrypt(message, seeds), LAMBDA encryptedData :
        Bind(RSA_encrypt(encryptedData.key, this.publicKey, seeds[3]),
             LAMBDA encryptedKey :
            Returned([key |-> encryptedKey.val, iv |-> encryptedData.iv,
                      message |-> encode64(encryptedData.data)],
                     << "AES.encrypt", "RSA.encrypt", "encode64" >>,
                     encryptedKey.oaep, encryptedData.drawn \o encryptedKey.drawn)))

\* CRYPTIFYJS.prototype.encryptMessage(message)
encryptMessage(this, message, seeds) ==
    IF Falsy(message)
    THEN Thrown(Error1("Message is required for encryption"), <<>>, NoOaep, <<>>)
    ELSE IF TypeOf(message) # "string"
    THEN Thrown(Error1("Message must be a string"), <<>>, NoOaep, <<>>)
    ELSE
        Bind(AES_encrypt(message, seeds), LAMBDA encryptedData :
        Bind(RSA_encrypt(encryptedData.key, this.publicKey, seeds[3]),
             LAMBDA encryptedKey :
            IF ~encryptedData.ok
            THEN Thrown(NewError("Error while encrypting message", encryptedData.err),
                        << "AES.encrypt" >>, NoOaep, encryptedData.drawn)
            ELSE IF ~encryptedKey.ok
            THEN Thrown(NewError("Error while encrypting message", encryptedKey.err),
                        << "AES.encrypt", "RSA.encrypt" >>, encryptedKey.oaep,
                        encryptedData.drawn)
            ELSE Returned([key |-> encryptedKey.val, iv |-> encode64(encryptedData.iv),
                           message |-> encode64(encryptedData.data)],
                          << "AES.encrypt", "RSA.encrypt", "encode64", "encode64" >>,
                          encryptedKey.oaep, encryptedData.drawn \o encryptedKey.drawn)))

\* decryptMessage reading its arguments the way decrypt does
decryptMessage_ObjectPath(this, key, iv, message) ==
    IF Falsy(key) \/ Falsy(iv) \/ Falsy(message)
    THEN Thrown(Error1("Key, IV, and Message are required for decryption"),
                <<>>, NoOaep, <<>>)
    ELSE IF TypeOf(key) # "string" \/ TypeOf(iv) # "string" \/ TypeOf(message) # "string"
    THEN Thrown(Error1("Key, IV, and Message must be strings"), <<>>, NoOaep, <<>>)
    ELSE
        Bind(privateKey_decrypt(this.privateKey, key.s,
                                [md |-> "sha256", mgf1 |-> "sha1"]),
             LAMBDA decryptedKey :
        Bind(AES_decrypt(decryptedKey.val, iv.s, message.s), LAMBDA decryptedMessage :
            IF ~decryptedKey.ok
            THEN Thrown(NewError("Error while decrypting message", decryptedKey.err),
                        << "RSA.decrypt" >>, decryptedKey.oaep, <<>>)
            ELSE IF ~decryptedMessage.ok
            THEN Thrown(NewError("Error while decrypting message", decryptedMessage.err),
                        << "RSA.decrypt", "AES.decrypt" >>, decryptedKey.oaep, <<>>)
            ELSE Returned(Str(decryptedMessage.val),
                          << "RSA.decrypt", "AES.decrypt" >>, decryptedKey.oaep, <<>>)))

\* CRYPTIFYJS.prototype.decryptMessage(key, iv, message)
decryptMessage(this, key, iv, message) ==
    IF Falsy(key) \/ Falsy(iv) \/ Falsy(message)
    THEN Thrown(Error1("Key, IV, and Message are required for decryption"),
                <<>>, NoOaep, <<>>)
    ELSE IF TypeOf(key) # "string" \/ TypeOf(iv) # "string" \/ TypeOf(message) # "string"
    THEN Thrown(Error1("Key, IV, and Message must be strings"), <<>>, NoOaep, <<>>)
    ELSE
        Bind(RSA_decrypt(key.s, this.privateKey), LAMBDA decryptedKey :
        Bind(AES_decrypt(decryptedKey.val, decode64(iv.s), decode64(message.s)),
             LAMBDA decryptedMessage :
            IF ~decryptedKey.ok
            THEN Thrown(NewError("Error while decrypting message", decryptedKey.err),
                        << "RSA.decrypt" >>, decryptedKey.oaep, <<>>)
            ELSE IF ~decryptedMessage.ok
            THEN Thrown(NewError("Error while decrypting message", decryptedMessage.err),
                        << "RSA.decrypt", "decode64", "decode64", "AES.decrypt" >>,
                        decryptedKey.oaep, <<>>)
            ELSE Returned(Str(decryptedMessage.val),
                          << "RSA.decrypt", "decode64", "decode64", "AES.decrypt" >>,
                          decryptedKey.oaep, <<>>)))

\* ------------------------------------------------------------- inputs
\* 'a', '"' and U+00E9
Alphabet == {97, 34, 233}

Strings == UNION {[1..k -> Alphabet] : k \in 0..MaxStrLen}

\* the arguments of encryptMessage: strings, and values that are no strings
MessageInputs == {Str(s) : s \in Strings} \cup {Undefined, Null, Num(7), Obj(<<>>)}

\* objects of string fields
Payloads ==
    {Obj(<<>>), Obj(<< << << 110 >>, << 97 >> >>, << << 109 >>, << 34, 97 >> >> >>)}
    \cup {Obj(<< << << 110 >>, s >> >>) : s \in Strings}

\* the arguments of encrypt: objects, and values that are no objects
EncryptInputs == Payloads \cup {Undefined, Null, Num(0), Str(<< 97 >>)}

\* the values of options.publicKey and options.privateKey: none, text that
\* is no base64, base64 of text that is no PEM, a public and a private PEM
KeyInputs ==
    {Undefined, Str(<< 33, 33 >>), Str(encode64(<< 120, 120 >>))}
    \cup {Str(encode64(PemText(80, n))) : n \in KeyPairIds}
    \cup {Str(encode64(PemText(82, n))) : n \in KeyPairIds}

OptionsInputs == {NoOptions} \cup {Options(a, b) : a \in KeyInputs, b \in KeyInputs}

\* the draws of the random source during one call
DrawIds(e) == << 3 * e - 2, 3 * e - 1, 3 * e >>

\* ------------------------------------------------------------- state
VARIABLES
    self,   \* the instance the last construction yielded, NoInstance if none
    ctor,   \* the last construction: its options, whether it threw, the error
    phase,  \* "sender" while envelopes are made, "receiver" once one was sent
    call,   \* the last call: the operation and its arguments
    ret,    \* what the last call did
    held    \* the envelope the last encryption returned, with the payload it
            \* came from; NoHeld if there was none or it threw

vars == << self, ctor, phase, call, ret, held >>

NoCall == [op |-> "none", args |-> <<>>, own |-> FALSE]

\* before any encryption the caller holds three strings of its own
NoHeld == [path |-> "none", key |-> << 107 >>, iv |-> << 105 >>, data |-> << 100 >>,
           orig |-> Undefined, tampered |-> FALSE, cut |-> FALSE]

HeldArgs == << Str(held.key), Str(held.iv), Str(held.data) >>

\* the held envelope, or the held envelope with one argument replaced
DecryptArgs ==
    {HeldArgs} \cup
    {[HeldArgs EXCEPT ![i] = b] : i \in 1..3, b \in {Undefined, Null, Num(7), Str(<<>>)}}

Init ==
    /\ self = NoInstance
    /\ ctor = [options |-> NoOptions, threw |-> FALSE, err |-> NoError, done |-> FALSE]
    /\ phase = "sender"
    /\ call = NoCall
    /\ ret = NoRet
    /\ held = NoHeld

Constructed(options, r) ==
    /\ ctor' = [options |-> options, threw |-> r.threw, err |-> r.err, done |-> TRUE]
    /\ self' = r.inst
    /\ phase' = "sender"
    /\ call' = NoCall
    /\ ret' = NoRet
    /\ held' = NoHeld

\* one instance is followed: a construction that threw left none behind and
\* is tried again, one that returned is the instance of every later call
Construct(options) ==
    /\ self = NoInstance
    /\ Constructed(options, CRYPTIFYJS(options))

Encrypted(data, r) ==
    /\ call' = [op |-> "encrypt", args |-> << data >>, own |-> FALSE]
    /\ ret' = r
    /\ held' = IF r.threw THEN NoHeld
               ELSE [path |-> "object", key |-> r.value.key, iv |-> r.value.iv,
                     data |-> r.value.data, orig |-> data, tampered |-> FALSE,
                     cut |-> FALSE]
    /\ UNCHANGED << self, ctor, phase >>

Encrypt(data, e) ==
    /\ self # NoInstance
    /\ phase = "sender"
    /\ Encrypted(data, encrypt(self, data, DrawIds(e)))

EncryptedMessage(message, r) ==
    /\ call' = [op |-> "encryptMessage", args |-> << message >>, own |-> FALSE]
    /\ ret' = r
    /\ held' = IF r.threw THEN NoHeld
               ELSE [path |-> "message", key |-> r.value.key, iv |-> r.value.iv,
                     data |-> r.value.message, orig |-> message, tampered |-> FALSE,
                     cut |-> FALSE]
    /\ UNCHANGED << self, ctor, phase >>

EncryptMessage(message, e) ==
    /\ self # NoInstance
    /\ phase = "sender"
    /\ EncryptedMessage(message, encryptMessage(self, message, DrawIds(e)))

\* the envelope reaches the receiver as it is
Deliver ==
    /\ self # NoInstance
    /\ phase = "sender"
    /\ phase' = "receiver"
    /\ call' = NoCall
    /\ ret' = NoRet
    /\ UNCHANGED << self, ctor, held >>

FlipBit(bytes, j, b) ==
    [bytes EXCEPT ![j] = IF Bit(bytes[j], b) = 1 THEN bytes[j] - 2 ^ b ELSE bytes[j] + 2 ^ b]

\* the ciphertext bytes of the held envelope
CipherBytes == IF held.path = "message" THEN decode64(held.data) ELSE held.data

Tampered(flipped) ==
    /\ held' = [held EXCEPT
                    !.data = IF held.path = "message" THEN encode64(flipped) ELSE flipped,
                    !.tampered = TRUE]
    /\ phase' = "receiver"
    /\ call' = NoCall
    /\ ret' = NoRet
    /\ UNCHANGED << self, ctor >>

\* the envelope reaches the receiver with bit b of byte j of the ciphertext flipped
Tamper(j, b) ==
    /\ phase = "sender"
    /\ held.path # "none"
    /\ Tampered(FlipBit(CipherBytes, j, b))

\* the envelope reaches the receiver with its ciphertext cut down to "YQ=="
\* (four bytes, and the base64 of one byte): less than a block
Truncate ==
    /\ phase = "sender"
    /\ held.path # "none"
    /\ held' = [held EXCEPT !.data = << 89, 81, 61, 61 >>, !.cut = TRUE]
    /\ phase' = "receiver"
    /\ call' = NoCall
    /\ ret' = NoRet
    /\ UNCHANGED << self, ctor >>

\* a decrypt call that drops the public key of the instance
Decrypt_DropsKey(args) ==
    /\ phase = "receiver"
    /\ call' = [op |-> "decrypt", args |-> args, own |-> args = HeldArgs]
    /\ ret' = decrypt(self, args[1], args[2], args[3])
    /\ self' = [self EXCEPT !.publicKey = NoKey]
    /\ UNCHANGED << ctor, phase, held >>

Decrypt(args) ==
    /\ phase = "receiver"
    /\ call' = [op |-> "decrypt", args |-> args, own |-> args = HeldArgs]
    /\ ret' = decrypt(self, args[1], args[2], args[3])
    /\ UNCHANGED << self, ctor, phase, held >>

DecryptMessage(args) ==
    /\ phase = "receiver"
    /\ call' = [op |-> "decryptMessage", args |-> args, own |-> args = HeldArgs]
    /\ ret' = decryptMessage(self, args[1], args[2], args[3])
    /\ UNCHANGED << self, ctor, phase, held >>

Next ==
    \/ \E options \in OptionsInputs : Construct(options)
    \/ \E data \in EncryptInputs, e \in Seeds : Encrypt(data, e)
    \/ \E message \in MessageInputs, e \in Seeds : EncryptMessage(message, e)
    \/ Deliver
    \/ \E j \in {1, Len(CipherBytes)}, b \in 0..MaxFlipBit : Tamper(j, b)
    \/ Truncate
    \/ \E args \in DecryptArgs : Decrypt(args)
    \/ \E args \in DecryptArgs : DecryptMessage(args)

Spec == Init /\ [][Next]_vars

\* ------------------------------------------------------------- properties
IsEncryptCall == call.op \in {"encrypt", "encryptMessage"}

IsDecryptCall == call.op \in {"decrypt", "decryptMessage"}

\* the last call was given the held envelope, by the operation of its path
SamePath ==
    /\ call.own
    /\ \/ call.op = "decrypt" /\ held.path = "object"
       \/ call.op = "decryptMessage" /\ held.path = "message"

\* the last call was given the held envelope, by the operation of the other path
CrossPath ==
    /\ call.own
    /\ \/ call.op = "decrypt" /\ held.path = "message"
       \/ call.op = "decryptMessage" /\ held.path = "object"

\* C1: decryptMessage, given the key, iv and message that encryptMessage(S)
\* returned on the same instance, returns S itself.
C1_MessageRoundTrip ==
    (call.op = "decryptMessage" /\ SamePath /\ ~held.tampered /\ ~held.cut)
        => (~ret.threw /\ ret.value = held.orig)

\* C2: decrypt, given the key, iv and data that encrypt(P) returned on the
\* same instance, returns a value equal to P.
C2_ObjectRoundTrip ==
    (call.op = "decrypt" /\ SamePath /\ ~held.tampered /\ ~held.cut)
        => (~ret.threw /\ ret.value = held.orig)

\* the key a returned envelope carries, as the private key opens it
EnvelopeKey ==
    IF call.op = "encrypt"
    THEN privateKey_decrypt(self.privateKey, ret.value.key,
                            [md |-> "sha256", mgf1 |-> "sha1"]).val
    ELSE RSA_decrypt(ret.value.key, self.privateKey).val

EnvelopeIv == IF call.op = "encrypt" THEN ret.value.iv ELSE decode64(ret.value.iv)

\* C3: every encrypt and encryptMessage call that passes validation draws a
\* 32-byte key and a 16-byte IV from the random source during the call, the
\* envelope it returns is made with exactly these two draws, and the instance
\* has no field but its two RSA keys to keep a key or an IV in.
C3_FreshKeyAndIv ==
    /\ DOMAIN self = {"publicKey", "privateKey"}
    /\ (IsEncryptCall /\ ret.steps # <<>>) =>
            /\ Len(ret.drawn) >= 2
            /\ Len(ret.drawn[1]) = AesKeyBytes
            /\ Len(ret.drawn[2]) = AesIvBytes
            /\ ~ret.threw => (EnvelopeKey = ret.drawn[1] /\ EnvelopeIv = ret.drawn[2])

C3_Witness ==
    /\ call.op = "encryptMessage"
    /\ ~ret.threw
    /\ EnvelopeKey = ret.drawn[1]
    /\ Len(ret.drawn[1]) = AesKeyBytes

Missing(v) == v.t \in {"undefined", "null"}

Expected == IF call.op = "encrypt" THEN "object" ELSE "string"

ArgMissing == \E i \in 1..Len(call.args) : Missing(call.args[i])

ArgWrongType == \E i \in 1..Len(call.args) : TypeOf(call.args[i]) # Expected

ArgRejected ==
    \E i \in 1..Len(call.args) : Falsy(call.args[i]) \/ TypeOf(call.args[i]) # Expected

RequiredMsg ==
    CASE call.op = "encrypt" -> "Data is required for encryption"
      [] call.op = "decrypt" -> "Key, IV, and Data are required for decryption"
      [] call.op = "encryptMessage" -> "Message is required for encryption"
      [] call.op = "decryptMessage" -> "Key, IV, and Message are required for decryption"
      [] OTHER -> "none"

TypeMsg ==
    CASE call.op = "encrypt" -> "Data must be an object"
      [] call.op = "decrypt" -> "Key, IV, and Data must be strings"
      [] call.op = "encryptMessage" -> "Message must be a string"
      [] call.op = "decryptMessage" -> "Key, IV, and Message must be strings"
      [] OTHER -> "none"

\* C5: a call with a null or missing input throws the "required" error, a
\* call whose inputs are all present but one of the wrong type throws the
\* "type" error, and a call whose inputs are all present never throws the
\* "required" error.
C5_RequiredVersusType ==
    call.op # "none" =>
        /\ ArgMissing => (ret.threw /\ ret.err.msg = RequiredMsg)
        /\ (~ArgMissing /\ ArgWrongType) => (ret.threw /\ ret.err.msg = TypeMsg)
        /\ ~ArgMissing => ret.err.msg # RequiredMsg

\* C6: a call whose input the validation rejects throws with no step run,
\* nothing drawn from the random source, no RSA step and no value returned.
C6_ValidationFirst ==
    (call.op # "none" /\ ArgRejected) =>
        /\ ret.threw
        /\ ret.err.msg \in {RequiredMsg, TypeMsg}
        /\ ret.steps = <<>>
        /\ ret.drawn = <<>>
        /\ ret.oaep = NoOaep
        /\ ret.value = Undefined

C6_Witness ==
    /\ call.op = "encrypt"
    /\ ArgRejected
    /\ ret.threw
    /\ ret.steps = <<>>

\* C7: a call that throws out of a cipher or codec step throws an error that
\* has the lower-level error as its cause.
C7_CauseAttached ==
    (call.op # "none" /\ ret.threw /\ ret.steps # <<>>) => ret.err.cause # NoCause

\* a key option the constructor can read as a key of the given PEM type
Parseable(v, type) ==
    /\ v.t = "string"
    /\ pem_decode(decode64(v.s)).ok
    /\ pem_decode(decode64(v.s)).type = type

BadOptions ==
    \/ ~ctor.options.present
    \/ ~Parseable(ctor.options.publicKey, 80)
    \/ ~Parseable(ctor.options.privateKey, 82)

\* C8: a construction without options, or with a publicKey or privateKey
\* that is missing or does not parse from base64 PEM, throws and leaves no
\* instance; an instance is there only after a construction with both keys.
C8_ConstructorRejects ==
    /\ (ctor.done /\ BadOptions) => (ctor.threw /\ self = NoInstance)
    /\ self # NoInstance => (ctor.done /\ ~ctor.threw /\ ~BadOptions)

C8_Witness ==
    /\ ctor.done
    /\ ctor.threw
    /\ ctor.options.present
    /\ Parseable(ctor.options.publicKey, 80)
    /\ ~Parseable(ctor.options.privateKey, 82)
    /\ self = NoInstance

\* C9: decrypting an envelope whose ciphertext had one bit flipped throws.
C9_TamperDetected ==
    (IsDecryptCall /\ SamePath /\ held.tampered) => ret.threw

\* C10: decryptMessage given an envelope of encrypt, and decrypt given an
\* envelope of encryptMessage, throw; they return no payload.
C10_PathsNotInterchangeable ==
    (IsDecryptCall /\ CrossPath) => (ret.threw /\ ret.value = Undefined)

C10_Witness ==
    /\ call.op = "decryptMessage"
    /\ CrossPath
    /\ ~held.tampered
    /\ ret.threw
    /\ ret.steps = << "RSA.decrypt" >>

\* text that is the base64 encoding of some byte string
IsBase64Text(s) == encode64(decode64(s)) = s

RanAesDecrypt ==
    /\ IsDecryptCall
    /\ \E i \in 1..Len(ret.steps) : ret.steps[i] = "AES.decrypt"

\* the key, IV and ciphertext the last call handed to AES.decrypt
AesDecryptArgs ==
    IF call.op = "decrypt"
    THEN [key |-> privateKey_decrypt(self.privateKey, call.args[1].s,
                                     [md |-> "sha256", mgf1 |-> "sha1"]).val,
          iv |-> call.args[2].s,
          data |-> call.args[3].s]
    ELSE [key |-> RSA_decrypt(call.args[1].s, self.privateKey).val,
          iv |-> decode64(call.args[2].s),
          data |-> decode64(call.args[3].s)]

\* C12: AES.decrypt throws whenever the key has no AES key length, the IV is
\* not 16 bytes long, or the padding check of decipher.finish() fails.
C12_AesDecryptRejects ==
    RanAesDecrypt =>
        Bind(AesDecryptArgs, LAMBDA a :
        Bind(AES_decrypt(a.key, a.iv, a.data), LAMBDA r :
            (~AesKeyOk(a.key) \/ Len(a.iv) # AesIvBytes \/ ~r.finished) => ~r.ok))

\* the instance with one of its keys taken away
WithoutPrivateKey == [self EXCEPT !.privateKey = NoKey]

WithoutPublicKey == [self EXCEPT !.publicKey = NoKey]

\* the last call did what it would have done on an instance that has only
\* the key of its direction: the public key to encrypt, the private one to decrypt
ReadsOnlyItsKey ==
    CASE call.op = "encrypt" ->
            \E e \in Seeds : ret = encrypt(WithoutPrivateKey, call.args[1], DrawIds(e))
      [] call.op = "encryptMessage" ->
            \E e \in Seeds : ret = encryptMessage(WithoutPrivateKey, call.args[1], DrawIds(e))
      [] call.op = "decrypt" ->
            ret = decrypt(WithoutPublicKey, call.args[1], call.args[2], call.args[3])
      [] call.op = "decryptMessage" ->
            ret = decryptMessage(WithoutPublicKey, call.args[1], call.args[2], call.args[3])
      [] OTHER -> TRUE

\* C13: once constructed, the instance has the fields publicKey and
\* privateKey and no other, no step changes either of them, whether the call
\* returns or throws, and every call does what it would do on an instance
\* holding only the public key (encryption) or the private key (decryption).
C13_InstanceFrame ==
    /\ [](DOMAIN self = {"publicKey", "privateKey"} /\ ReadsOnlyItsKey)
    /\ [][self # NoInstance => self' = self]_vars

C13_Witness ==
    /\ call.op = "decryptMessage"
    /\ ret.threw
    /\ ret.steps # <<>>
    /\ self = [publicKey |-> PublicKey(1), privateKey |-> PrivateKey(1)]
    /\ ReadsOnlyItsKey

\* the byte string k occurs in the string s
Contains(s, k) ==
    \E i \in 1..(Len(s) - Len(k) + 1) : SubSeq(s, i, i + Len(k) - 1) = k

\* the byte string k occurs in the text s, as it is, base64-encoded, or in
\* the bytes s is the base64 encoding of
Carries(s, k) ==
    \/ Contains(s, k)
    \/ Contains(s, encode64(k))
    \/ Contains(decode64(s), k)

\* the fields of the envelope the last call returned
EnvelopeFields == {ret.value[f] : f \in DOMAIN ret.value}

\* C14: the key an encrypt or encryptMessage call drew occurs in no field of
\* the envelope it returns, neither as it is nor base64-encoded; the key
\* field opens to that key under the private key only; and a call that
\* throws has drawn no key that its error could carry.
C14_PlainKeyNotReturned ==
    /\ (IsEncryptCall /\ ~ret.threw) =>
            /\ \A s \in EnvelopeFields : ~Carries(s, ret.drawn[1])
            /\ EnvelopeKey = ret.drawn[1]
    /\ (IsEncryptCall /\ ret.threw) =>
            /\ ret.drawn = <<>>
            /\ ret.value = Undefined
            /\ ret.err.cause = NoCause

C14_Witness ==
    /\ call.op = "encrypt"
    /\ ~ret.threw
    /\ Len(ret.drawn[1]) = AesKeyBytes
    /\ ~Carries(ret.value.key, ret.drawn[1])
    /\ ~Carries(ret.value.data, ret.drawn[1])

====
